---- MODULE Spec2Model ----
(***************************************************************************)
(* Model of rename/rename.py: the File record and the FileManager that     *)
(* loads a flat directory, finds and deletes duplicates, resolves          *)
(* collision-free targets and renames the files.                           *)
(*                                                                         *)
(* File names are sequences of one-character strings, so that the string   *)
(* operations of the code (strftime, f-strings, pathlib stem and suffix,   *)
(* stem[:-1]) are computed and not assumed.                                *)
(***************************************************************************)
EXTENDS Integers, Sequences, FiniteSets, TLC

\* ------------------------------------------------------------------ bounds
\* at most MaxFiles entries in the directory
MaxFiles == 3
\* a caller stops calling increment_target once index reaches MaxIndex
MaxIndex == 2
\* CreateDate and st_ctime are instants 1..MaxStamp where both are drawn
MaxStamp == 3

\* ------------------------------------------------------------ string layer
Digits == <<"0", "1", "2", "3", "4", "5", "6", "7", "8", "9">>

RECURSIVE Str(_)
\* str(n) of a non-negative integer, as used by the f-strings
Str(n) ==
    IF n < 10 THEN <<Digits[n + 1]>>
    ELSE Str(n \div 10) \o <<Digits[(n % 10) + 1]>>

\* date.strftime('%Y%m%d %H%M%S %z'): the date and time digits, a space and
\* the UTC offset of LOCAL_TZ (one symbol, "z"); it never contains a dot
Strftime(date) == Str(date) \o <<" ", "z">>

RECURSIVE RFind(_, _)
\* str.rfind('.') counted from 1; 0 when there is no dot at or before i
RFind(name, i) ==
    IF i = 0 THEN 0
    ELSE IF name[i] = "." THEN i
    ELSE RFind(name, i - 1)

\* pathlib suffix: the last dot and what follows, unless the dot is the
\* first or the last character of the name
Suffix(name) ==
    LET i == RFind(name, Len(name))
    IN  IF 1 < i /\ i < Len(name) THEN SubSeq(name, i, Len(name)) ELSE <<>>

\* pathlib stem: the name without its suffix
Stem(name) ==
    LET i == RFind(name, Len(name))
    IN  IF 1 < i /\ i < Len(name) THEN SubSeq(name, 1, i - 1) ELSE name

\* ------------------------------------------------------------ the directory
\* exiftool printed nothing that parses as a CreateDate
NoDate == 0

\* a plain file as the program reads it: its content, the CreateDate that
\* exiftool prints and its st_ctime
PlainFile(content, create, ctime) ==
    [kind |-> "file", content |-> content, create |-> create, ctime |-> ctime]
DirAttr == [kind |-> "dir", content |-> 0, create |-> NoDate, ctime |-> NoDate]

\* the entries a directory is drawn from.  a and d hold the same picture
\* (d under another extension), c is another picture taken at the same
\* instant, the fourth file was named by an earlier run and has no
\* metadata, and s is a sub-directory
Pool ==
    [n \in { <<"a", ".", "j">>, <<"c", ".", "j">>, <<"d", ".", "p">>,
             Strftime(1) \o <<".", "j">>, <<"s">> } |->
        CASE n = <<"a", ".", "j">> -> PlainFile(1, 1, 2)
          [] n = <<"c", ".", "j">> -> PlainFile(2, 1, 2)
          [] n = <<"d", ".", "p">> -> PlainFile(1, 1, 2)
          [] n = Strftime(1) \o <<".", "j">> -> PlainFile(3, NoDate, 2)
          [] OTHER -> DirAttr]

VARIABLES
    disk,       \* the directory: name -> attributes of the entry
    pc,         \* "new", "active" (constructed) or "failed" (constructor raised)
    recs,       \* every File object ever built, by load position
    files,      \* FileManager.files: load positions of the managed records
    last,       \* the last call: its name, the exception it raised, and the
                \* list find_duplicates returned, delete_duplicates was
                \* given or rename_files found in self.files
    succeeded   \* a rename_files pass has completed
vars == <<disk, pc, recs, files, last, succeeded>>

NoError == "none"

\* ------------------------------------------------------------------- File
\* File.get_hash
get_hash(attr) == attr.content

\* the earlier of the CreateDate and the status-change time
get_date_min(attr) ==
    IF attr.create # NoDate /\ attr.create < attr.ctime
    THEN attr.create ELSE attr.ctime

\* the CreateDate field as exiftool printed it, parseable or not
get_date_nofallback(attr) == attr.create

\* File.get_date: the CreateDate when it parses, else the status-change time
get_date(attr) == IF attr.create # NoDate THEN attr.create ELSE attr.ctime

\* File.get_target
get_target(rec, unique) ==
    IF unique
    THEN Strftime(rec.date) \o Suffix(rec.path)
    ELSE Strftime(rec.date) \o <<" ">> \o Str(rec.index) \o Suffix(rec.path)

\* File.__post_init__ with the dataclass defaults index = 1, resolved = False
NewFile(name, attr) ==
    LET r == [path |-> name, hash_ |-> get_hash(attr), date |-> get_date(attr),
              target |-> <<>>, index |-> 1, resolved |-> FALSE]
    IN  [r EXCEPT !.target = get_target(r, FALSE)]

\* the index incremented and the target left as it was
increment_target_stale(rec) == [rec EXCEPT !.index = rec.index + 1]

\* File.increment_target
increment_target(rec) ==
    LET r == [rec EXCEPT !.index = rec.index + 1]
    IN  [r EXCEPT !.target = get_target(r, FALSE)]

\* ------------------------------------------------------------- FileManager
\* the orders in which path.iterdir() may yield the entries
Listings(d) ==
    { s \in [1..Cardinality(DOMAIN d) -> DOMAIN d] :
        \A i, j \in DOMAIN s : i # j => s[i] # s[j] }

RECURSIVE list_files_all(_, _)
\* the is_file() filter left out: one File per entry
list_files_all(d, listing) ==
    IF listing = <<>> THEN <<>>
    ELSE <<NewFile(Head(listing), d[Head(listing)])>>
             \o list_files_all(d, Tail(listing))

RECURSIVE list_files(_, _)
\* FileManager.list_files over a listing: one File per plain file
list_files(d, listing) ==
    IF listing = <<>> THEN <<>>
    ELSE LET n == Head(listing)
         IN  (IF d[n].kind = "file" THEN <<NewFile(n, d[n])>> ELSE <<>>)
             \o list_files(d, Tail(listing))

\* FileManager.__post_init__
Construct ==
    /\ pc = "new"
    /\ \E listing \in Listings(disk) :
         LET fs == list_files(disk, listing)
         IN  IF Len(fs) = 0
             THEN /\ pc' = "failed"
                  /\ last' = [op |-> "init", err |-> "NoFileToRenameError",
                              val |-> <<>>]
                  /\ UNCHANGED <<recs, files>>
             ELSE /\ pc' = "active"
                  /\ recs' = fs
                  /\ files' = [i \in 1..Len(fs) |-> i]
                  /\ last' = [op |-> "init", err |-> NoError, val |-> <<>>]
    /\ UNCHANGED <<disk, succeeded>>

Init ==
    /\ \E N \in SUBSET DOMAIN Pool :
         /\ Cardinality(N) <= MaxFiles
         /\ disk = [n \in N |-> Pool[n]]
    /\ pc = "new"
    /\ recs = <<>>
    /\ files = <<>>
    /\ last = [op |-> "none", err |-> NoError, val |-> <<>>]
    /\ succeeded = FALSE

\* the File objects in FileManager.files, in list order
InFiles(fs) == { fs[k] : k \in DOMAIN fs }

\* list.pop(0) in place of list.remove(x): drops the first element
ListRemove_head(fs, i) == Tail(fs)

\* list.remove(x): drops the first element equal to x.  Dataclass equality
\* compares all fields; the paths of the records of one manager differ
\* pairwise, so equal records are the same record
ListRemove(fs, i) ==
    LET k == CHOOSE k \in DOMAIN fs :
                 fs[k] = i /\ \A j \in 1..(k - 1) : fs[j] # i
    IN  SubSeq(fs, 1, k - 1) \o SubSeq(fs, k + 1, Len(fs))

RECURSIVE find_duplicates_prev(_, _, _, _)
\* hashes overwritten instead of appended to: only the hash seen last is kept
find_duplicates_prev(rs, fs, hashes, duplicates) ==
    IF fs = <<>> THEN duplicates
    ELSE LET i == Head(fs)
         IN  IF \E k \in DOMAIN hashes : hashes[k] = rs[i].hash_
             THEN find_duplicates_prev(rs, Tail(fs), hashes,
                                       Append(duplicates, i))
             ELSE find_duplicates_prev(rs, Tail(fs), <<rs[i].hash_>>,
                                       duplicates)

\* every record whose hash occurs in another record, the first copy too
find_duplicates_all(rs, fs, hashes, duplicates) ==
    SelectSeq(fs, LAMBDA i :
        \E k \in DOMAIN fs : fs[k] # i /\ rs[fs[k]].hash_ = rs[i].hash_)

RECURSIVE find_duplicates(_, _, _, _)
\* FileManager.find_duplicates: the loop over self.files from position k on
find_duplicates(rs, fs, hashes, duplicates) ==
    IF fs = <<>> THEN duplicates
    ELSE LET i == Head(fs)
         IN  IF \E k \in DOMAIN hashes : hashes[k] = rs[i].hash_
             THEN find_duplicates(rs, Tail(fs), hashes, Append(duplicates, i))
             ELSE find_duplicates(rs, Tail(fs), Append(hashes, rs[i].hash_),
                                  duplicates)

FindDuplicates ==
    /\ pc = "active"
    /\ last' = [op |-> "find_duplicates", err |-> NoError,
                val |-> find_duplicates(recs, files, <<>>, <<>>)]
    /\ UNCHANGED <<disk, pc, recs, files, succeeded>>

RECURSIVE remove_duplicates(_, _)
\* FileManager.remove_duplicates: the list after the loop and the exception
\* that ended it (list.remove raises ValueError for a missing element)
remove_duplicates(fs, duplicates) ==
    IF duplicates = <<>> THEN [files |-> fs, err |-> NoError]
    ELSE IF Head(duplicates) \notin InFiles(fs)
         THEN [files |-> fs, err |-> "ValueError"]
         ELSE remove_duplicates(ListRemove(fs, Head(duplicates)),
                                Tail(duplicates))

\* the lists of records a caller passes: the result of find_duplicates or
\* one record it holds (ShortLists), or two records it holds
ShortLists ==
    {find_duplicates(recs, files, <<>>, <<>>)}
      \cup { <<i>> : i \in DOMAIN recs }
ArgLists ==
    ShortLists \cup { a \in [1..2 -> DOMAIN recs] : a[1] # a[2] }

RemoveDuplicates(duplicates) ==
    /\ pc = "active"
    /\ LET r == remove_duplicates(files, duplicates)
       IN  /\ files' = r.files
           /\ last' = [op |-> "remove_duplicates", err |-> r.err, val |-> <<>>]
    /\ UNCHANGED <<disk, pc, recs, succeeded>>

\* os.remove(path)
os_remove(d, path) == [n \in DOMAIN d \ {path} |-> d[n]]

RECURSIVE delete_duplicates_nocheck(_, _, _, _)
\* the membership test left out: every given record's file is deleted
delete_duplicates_nocheck(d, rs, fs, duplicates) ==
    IF duplicates = <<>> THEN [disk |-> d, err |-> NoError]
    ELSE LET i == Head(duplicates)
         IN  IF rs[i].path \notin DOMAIN d
             THEN [disk |-> d, err |-> "FileNotFoundError"]
             ELSE delete_duplicates_nocheck(os_remove(d, rs[i].path), rs, fs,
                                            Tail(duplicates))

\* the membership test made for the whole list before the first deletion
delete_duplicates_atomic(d, rs, fs, duplicates) ==
    IF \E k \in DOMAIN duplicates : duplicates[k] \in InFiles(fs)
    THEN [disk |-> d, err |-> "DuplicateNotRemovedError"]
    ELSE delete_duplicates_nocheck(d, rs, fs, duplicates)

RECURSIVE delete_duplicates(_, _, _, _)
\* FileManager.delete_duplicates: the directory after the loop and the
\* exception that ended it
delete_duplicates(d, rs, fs, duplicates) ==
    IF duplicates = <<>> THEN [disk |-> d, err |-> NoError]
    ELSE LET i == Head(duplicates)
         IN  IF i \in InFiles(fs)
             THEN [disk |-> d, err |-> "DuplicateNotRemovedError"]
             ELSE IF rs[i].path \notin DOMAIN d
                  THEN [disk |-> d, err |-> "FileNotFoundError"]
                  ELSE delete_duplicates(os_remove(d, rs[i].path), rs, fs,
                                         Tail(duplicates))

DeleteDuplicates(duplicates) ==
    /\ pc = "active"
    /\ LET r == delete_duplicates(disk, recs, files, duplicates)
       IN  /\ disk' = r.disk
           /\ last' = [op |-> "delete_duplicates", err |-> r.err,
                       val |-> duplicates]
    /\ UNCHANGED <<pc, recs, files, succeeded>>

\* a caller increments the target of a record under management
IncrementTarget(i) ==
    /\ pc = "active"
    /\ i \in InFiles(files)
    /\ recs[i].index < MaxIndex
    /\ recs' = [recs EXCEPT ![i] = increment_target(recs[i])]
    /\ last' = [op |-> "increment_target", err |-> NoError, val |-> <<>>]
    /\ UNCHANGED <<disk, pc, files, succeeded>>

\* the loop test left out: the target is taken as it is
bump_never(rec, targets) == rec

RECURSIVE bump_dowhile(_, _)
\* the loop written as do ... while: one increment before the first test
bump_dowhile(rec, targets) ==
    LET r == increment_target(rec)
    IN  IF \E k \in DOMAIN targets : targets[k] = r.target
        THEN bump_dowhile(r, targets)
        ELSE r

RECURSIVE bump(_, _)
\* while file_.target in targets: file_.increment_target()
bump(rec, targets) ==
    IF \E k \in DOMAIN targets : targets[k] = rec.target
    THEN bump(increment_target(rec), targets)
    ELSE rec

RECURSIVE phase1(_, _, _)
\* first loop of resolve_targets: the records and the targets list after it
phase1(rs, fs, targets) ==
    IF fs = <<>> THEN [recs |-> rs, targets |-> targets]
    ELSE LET i == Head(fs)
             r == bump(rs[i], targets)
         IN  phase1([rs EXCEPT ![i] = r], Tail(fs), Append(targets, r.target))

\* the slice [:-1] left out: the "2" is appended to the whole stem
second_name_nostrip(target) == Stem(target) \o <<"2">> \o Suffix(target)

\* the name resolve_targets looks for: the stem without its last character,
\* a "2", and the suffix of the target
second_name(target) ==
    LET stem == Stem(target)
    IN  SubSeq(stem, 1, Len(stem) - 1) \o <<"2">> \o Suffix(target)

\* resolved set inside the if: only a record that is rewritten is resolved
phase2_one_lazy(rec, targets) ==
    IF rec.index = 1
         /\ ~ \E k \in DOMAIN targets : targets[k] = second_name(rec.target)
    THEN [rec EXCEPT !.target = get_target(rec, TRUE), !.resolved = TRUE]
    ELSE rec

\* body of the second loop of resolve_targets for one record
phase2_one(rec, targets) ==
    LET r == IF rec.index = 1
                  /\ ~ \E k \in DOMAIN targets :
                           targets[k] = second_name(rec.target)
             THEN [rec EXCEPT !.target = get_target(rec, TRUE)]
             ELSE rec
    IN  [r EXCEPT !.resolved = TRUE]

\* FileManager.resolve_targets
resolve_targets(rs, fs) ==
    LET p == phase1(rs, fs, <<>>)
    IN  [i \in DOMAIN rs |->
            IF i \in InFiles(fs) THEN phase2_one(p.recs[i], p.targets)
            ELSE rs[i]]

ResolveTargets ==
    /\ pc = "active"
    /\ recs' = resolve_targets(recs, files)
    /\ last' = [op |-> "resolve_targets", err |-> NoError, val |-> <<>>]
    /\ UNCHANGED <<disk, pc, files, succeeded>>

\* the operating systems os.rename differs on
Platforms == {"posix", "nt"}

\* pathlib.Path.rename(target): the directory afterwards and the exception.
\* An existing target file is replaced on POSIX and refused on Windows
path_rename(d, os, src, target) ==
    IF src \notin DOMAIN d THEN [disk |-> d, err |-> "FileNotFoundError"]
    ELSE IF target = src THEN [disk |-> d, err |-> NoError]
    ELSE IF target \in DOMAIN d /\ os = "nt"
         THEN [disk |-> d, err |-> "FileExistsError"]
    ELSE IF target \in DOMAIN d /\ d[target].kind = "dir"
         THEN [disk |-> d, err |-> "IsADirectoryError"]
    ELSE [disk |-> [n \in (DOMAIN d \ {src}) \cup {target} |->
                       IF n = target THEN d[src] ELSE d[n]],
          err |-> NoError]

RECURSIVE rename_loop(_, _, _, _, _)
\* the loop of rename_files over self.files: the directory after it, the
\* exception that ended it and the number of records it renamed (done
\* counts the renames made so far)
rename_loop(d, os, rs, fs, done) ==
    IF fs = <<>> THEN [disk |-> d, err |-> NoError, done |-> done]
    ELSE LET rec == rs[Head(fs)]
         IN  IF ~ rec.resolved
             THEN [disk |-> d, err |-> "TargetNotResolvedError", done |-> done]
             ELSE LET r == path_rename(d, os, rec.path, rec.target)
                  IN  IF r.err # NoError
                      THEN [disk |-> d, err |-> r.err, done |-> done]
                      ELSE rename_loop(r.disk, os, rs, Tail(fs), done + 1)

\* FileManager.rename_files
RenameFiles(os) ==
    /\ pc = "active"
    /\ IF Len(files) = 0
       THEN /\ last' = [op |-> "rename_files", err |-> "NoFileToRenameError",
                        val |-> <<>>]
            /\ UNCHANGED <<disk, files, succeeded>>
       ELSE LET r == rename_loop(disk, os, recs, files, 0)
            IN  /\ disk' = r.disk
                /\ last' = [op |-> "rename_files", err |-> r.err, val |-> files]
                /\ files' = IF r.err = NoError THEN <<>> ELSE files
                /\ succeeded' = (succeeded \/ r.err = NoError)
    /\ UNCHANGED <<pc, recs>>

Next ==
    \/ Construct
    \/ FindDuplicates
    \/ \E duplicates \in ArgLists : RemoveDuplicates(duplicates)
    \/ \E duplicates \in ArgLists : DeleteDuplicates(duplicates)
    \/ \E i \in DOMAIN recs : IncrementTarget(i)
    \/ ResolveTargets
    \/ \E os \in Platforms : RenameFiles(os)

Spec == Init /\ [][Next]_vars

\* Spec interleaves every call.  The three specifications below are its
\* parts: SpecResolve has the calls that read and write the records only
\* (delete_duplicates and rename_files change no target), SpecDisk has the
\* calls of a caller that never calls increment_target itself, and SpecMain
\* is the one call sequence of the script.  A list of two records leaves
\* remove_duplicates in the states that two calls with one record reach, so
\* the parts draw its argument from ShortLists.

\* the calls that work on the records only
NextResolve ==
    \/ Construct
    \/ FindDuplicates
    \/ \E duplicates \in ShortLists : RemoveDuplicates(duplicates)
    \/ \E i \in DOMAIN recs : IncrementTarget(i)
    \/ ResolveTargets

SpecResolve == Init /\ [][NextResolve]_vars

\* the calls of a caller that leaves the targets to resolve_targets
NextDisk ==
    \/ Construct
    \/ FindDuplicates
    \/ \E duplicates \in ShortLists : RemoveDuplicates(duplicates)
    \/ \E duplicates \in ArgLists : DeleteDuplicates(duplicates)
    \/ ResolveTargets
    \/ \E os \in Platforms : RenameFiles(os)

SpecDisk == Init /\ [][NextDisk]_vars

\* the script at the end of rename.py: each call follows the previous one
\* unless that raised.  Its variable duplicates holds what find_duplicates
\* returned on the list as loaded
Returned(op) == last.op = op /\ last.err = NoError
MainDuplicates ==
    find_duplicates(recs, [i \in 1..Len(recs) |-> i], <<>>, <<>>)
MainFind == Returned("init") /\ FindDuplicates
MainRemove == Returned("find_duplicates") /\ RemoveDuplicates(MainDuplicates)
MainDelete == Returned("remove_duplicates") /\ DeleteDuplicates(MainDuplicates)
MainResolve == Returned("delete_duplicates") /\ ResolveTargets
MainRename == Returned("resolve_targets") /\ \E os \in Platforms : RenameFiles(os)

NextMain ==
    \/ Construct
    \/ MainFind
    \/ MainRemove
    \/ MainDelete
    \/ MainResolve
    \/ MainRename

SpecMain == Init /\ [][NextMain]_vars

\* the entries of a directory of pictures taken at one instant: a, b and c
\* differ in content, d is a copy of a under another extension
TiePool ==
    [n \in { <<"a", ".", "j">>, <<"b", ".", "j">>, <<"c", ".", "j">>,
             <<"d", ".", "p">> } |->
        CASE n = <<"a", ".", "j">> -> PlainFile(1, 1, 2)
          [] n = <<"b", ".", "j">> -> PlainFile(4, 1, 2)
          [] n = <<"c", ".", "j">> -> PlainFile(2, 1, 2)
          [] OTHER -> PlainFile(1, 1, 2)]

InitTie ==
    /\ \E N \in SUBSET DOMAIN TiePool :
         /\ Cardinality(N) <= MaxFiles
         /\ disk = [n \in N |-> TiePool[n]]
    /\ pc = "new"
    /\ recs = <<>>
    /\ files = <<>>
    /\ last = [op |-> "none", err |-> NoError, val |-> <<>>]
    /\ succeeded = FALSE

\* the calls of a caller that removes records and resolves, on such a
\* directory
NextTie ==
    \/ Construct
    \/ FindDuplicates
    \/ \E duplicates \in ArgLists : RemoveDuplicates(duplicates)
    \/ ResolveTargets

SpecTie == InitTie /\ [][NextTie]_vars

\* the calls of a caller that removes records and deletes files, on such
\* a directory
NextDelete ==
    \/ Construct
    \/ FindDuplicates
    \/ \E duplicates \in ArgLists : RemoveDuplicates(duplicates)
    \/ \E duplicates \in ArgLists : DeleteDuplicates(duplicates)

SpecDelete == InitTie /\ [][NextDelete]_vars

\* the entries of a directory with copies: a, b and d have the same
\* content, c another
DupPool ==
    [n \in { <<"a", ".", "j">>, <<"b", ".", "j">>, <<"c", ".", "j">>,
             <<"d", ".", "p">> } |->
        IF n = <<"c", ".", "j">> THEN PlainFile(2, 1, 2)
        ELSE PlainFile(1, 1, 2)]

InitDedup ==
    /\ \E N \in SUBSET DOMAIN DupPool :
         /\ Cardinality(N) <= MaxFiles
         /\ disk = [n \in N |-> DupPool[n]]
    /\ pc = "new"
    /\ recs = <<>>
    /\ files = <<>>
    /\ last = [op |-> "none", err |-> NoError, val |-> <<>>]
    /\ succeeded = FALSE

\* the calls of a caller that looks for duplicates and removes records
NextDedup ==
    \/ Construct
    \/ FindDuplicates
    \/ \E duplicates \in ArgLists : RemoveDuplicates(duplicates)

SpecDedup == InitDedup /\ [][NextDedup]_vars

\* resolve_targets taken one statement at a time.  While pc = "phase1" the
\* first loop is running: last.val[1] is the list targets, the record the
\* for loop is at is the one after those that appended their target, and
\* last.val[2] counts the passes of the while loop for that record
Targets == last.val[1]
Passes == last.val[2]
Current == recs[files[Len(Targets) + 1]]

\* targets = []
BeginResolve ==
    /\ pc = "active"
    /\ pc' = "phase1"
    /\ last' = [op |-> "resolve_targets", err |-> NoError,
                val |-> << <<>>, 0 >>]
    /\ UNCHANGED <<disk, recs, files, succeeded>>

\* one pass of the while loop: file_.target in targets, so
\* file_.increment_target()
LoopIncrement ==
    /\ pc = "phase1"
    /\ Len(Targets) < Len(files)
    /\ \E k \in DOMAIN Targets : Targets[k] = Current.target
    /\ recs' = [recs EXCEPT ![files[Len(Targets) + 1]] =
                                increment_target(Current)]
    /\ last' = [last EXCEPT !.val = <<Targets, Passes + 1>>]
    /\ UNCHANGED <<disk, pc, files, succeeded>>

\* the while loop is left: targets.append(file_.target)
LoopAppend ==
    /\ pc = "phase1"
    /\ Len(Targets) < Len(files)
    /\ ~ \E k \in DOMAIN Targets : Targets[k] = Current.target
    /\ last' = [last EXCEPT !.val = <<Append(Targets, Current.target), 0>>]
    /\ UNCHANGED <<disk, pc, recs, files, succeeded>>

\* the first loop is over: the second loop, and the call returns
FinishResolve ==
    /\ pc = "phase1"
    /\ Len(Targets) = Len(files)
    /\ recs' = [i \in DOMAIN recs |->
                   IF i \in InFiles(files) THEN phase2_one(recs[i], Targets)
                   ELSE recs[i]]
    /\ pc' = "active"
    /\ last' = [last EXCEPT !.val = <<>>]
    /\ UNCHANGED <<disk, files, succeeded>>

ResolveStep == LoopIncrement \/ LoopAppend \/ FinishResolve

\* a caller that removes records and resolves; a call that has begun runs
\* on to its end
NextSteps ==
    \/ Construct
    \/ \E duplicates \in ShortLists : RemoveDuplicates(duplicates)
    \/ BeginResolve
    \/ LoopIncrement
    \/ LoopAppend
    \/ FinishResolve

SpecSteps == InitTie /\ [][NextSteps]_vars /\ WF_vars(ResolveStep)

\* directories of one or two files with every CreateDate (or none) and
\* every st_ctime
Stamps == 1..MaxStamp
InitDate ==
    /\ \E N \in SUBSET { <<"a", ".", "j">>, <<"c", ".", "j">> } :
         \E create \in [N -> Stamps \cup {NoDate}], ctime \in [N -> Stamps] :
             disk = [n \in N |->
                        PlainFile(Pool[n].content, create[n], ctime[n])]
    /\ pc = "new"
    /\ recs = <<>>
    /\ files = <<>>
    /\ last = [op |-> "none", err |-> NoError, val |-> <<>>]
    /\ succeeded = FALSE

\* loading such a directory and resolving its targets
NextDate ==
    \/ Construct
    \/ ResolveTargets

SpecDate == InitDate /\ [][NextDate]_vars

\* ------------------------------------------------------------------ claims
\* the record's target in the form without a number, and with the number n
Unsuffixed(rec) == rec.target = Strftime(rec.date) \o Suffix(rec.path)
Suffixed(rec, n) ==
    rec.target = Strftime(rec.date) \o <<" ">> \o Str(n) \o Suffix(rec.path)

\* no record has been incremented, removed or resolved since the load
Fresh ==
    /\ pc = "active"
    /\ Len(files) = Len(recs)
    /\ \A i \in DOMAIN recs : recs[i].index = 1 /\ ~ recs[i].resolved

\* C1: after resolve_targets returns, the targets of the records in files
\* are pairwise distinct: there are as many distinct targets as records,
\* whatever find_duplicates, remove_duplicates, increment_target and
\* resolve_targets calls came before.
C1_TargetsDistinct ==
    last.op = "resolve_targets" =>
        Cardinality({ recs[i].target : i \in InFiles(files) }) = Len(files)

\* resolve_targets has returned and two managed records that share date and
\* extension, so that their first targets collided, are told apart
C1_Witness ==
    /\ last.op = "resolve_targets"
    /\ \E i, j \in InFiles(files) :
         /\ i # j
         /\ recs[i].date = recs[j].date
         /\ Suffix(recs[i].path) = Suffix(recs[j].path)
         /\ recs[i].index # recs[j].index

\* C4: a second resolve_targets call right after the first changes no
\* record: in the state the first call leaves, resolve_targets maps the
\* records to themselves (same target, same index), also those whose target
\* the first call rewrote to the unsuffixed form.
C4_ResolveIdempotent ==
    last.op = "resolve_targets" => resolve_targets(recs, files) = recs

\* resolve_targets has returned and left one record unsuffixed and another
\* one numbered
C4_Witness ==
    /\ last.op = "resolve_targets"
    /\ \E i, j \in InFiles(files) :
         /\ recs[i].index = 1 /\ Unsuffixed(recs[i])
         /\ recs[j].index > 1

\* C5 as stated: after resolve_targets on a freshly loaded collection, a
\* record that is alone at its timestamp has the unsuffixed target, and two
\* records that are the only ones at their timestamp carry 1 and 2.
C5_PerTimestamp ==
    \A T \in { recs[i].date : i \in InFiles(files) } :
        LET G == { i \in InFiles(files) : recs[i].date = T }
        IN  /\ Cardinality(G) = 1 => \A i \in G : Unsuffixed(recs[i])
            /\ Cardinality(G) = 2 =>
                  \E i, j \in G : /\ i # j
                                   /\ Suffixed(recs[i], 1)
                                   /\ Suffixed(recs[j], 2)
C5_Original ==
    [][(Fresh /\ last'.op = "resolve_targets") => C5_PerTimestamp']_vars

\* C5 amended: after resolve_targets on a freshly loaded collection, a
\* record that is alone with its timestamp and extension has the unsuffixed
\* target, and two records that are the only ones with their timestamp and
\* extension carry the suffixes 1 and 2.
C5_PerTimestampAndExtension ==
    \A i \in InFiles(files) :
        LET G == { j \in InFiles(files) :
                     /\ recs[j].date = recs[i].date
                     /\ Suffix(recs[j].path) = Suffix(recs[i].path) }
        IN  /\ Cardinality(G) = 1 => Unsuffixed(recs[i])
            /\ Cardinality(G) = 2 =>
                  \E j, k \in G : /\ j # k
                                   /\ Suffixed(recs[j], 1)
                                   /\ Suffixed(recs[k], 2)
C5_SingletonUnsuffixing ==
    [][(Fresh /\ last'.op = "resolve_targets")
          => C5_PerTimestampAndExtension']_vars

\* resolve_targets has returned on a full collection in which two records
\* of one timestamp and extension carry 1 and 2 and a third record of the
\* same timestamp, alone with its extension, is unsuffixed
C5_Witness ==
    /\ last.op = "resolve_targets"
    /\ Len(files) = Len(recs)
    /\ \E i, j, k \in InFiles(files) :
         /\ recs[i].date = recs[j].date /\ recs[j].date = recs[k].date
         /\ Suffixed(recs[i], 1) /\ Suffixed(recs[j], 2)
         /\ Suffix(recs[k].path) # Suffix(recs[i].path)
         /\ recs[k].index = 1 /\ Unsuffixed(recs[k])

\* C6: find_duplicates returns, in the order of files, exactly the records
\* whose hash equals the hash of a record earlier in files, so one record
\* less than there are records for each hash and none when the hashes
\* differ pairwise; the call changes neither files nor any record.
C6_FindDuplicates ==
    /\ [](last.op = "find_duplicates" =>
            /\ last.val =
                 SelectSeq(files, LAMBDA i :
                     \E k1, k2 \in DOMAIN files :
                         /\ k1 < k2 /\ files[k2] = i
                         /\ recs[files[k1]].hash_ = recs[i].hash_)
            /\ Len(last.val) =
                 Len(files)
                   - Cardinality({ recs[i].hash_ : i \in InFiles(files) }))
    /\ [][last'.op = "find_duplicates" => files' = files /\ recs' = recs]_vars

\* find_duplicates has returned a duplicate whose original is not the
\* record right before it
C6_Witness ==
    /\ last.op = "find_duplicates"
    /\ \E k \in DOMAIN files :
         /\ k > 1
         /\ files[k] \in InFiles(last.val)
         /\ recs[files[k - 1]].hash_ # recs[files[k]].hash_

\* the names of the plain files of a directory
PlainFiles(d) == { n \in DOMAIN d : d[n].kind = "file" }

\* C2 as stated: when nothing was removed and rename_files returns after
\* resolve_targets, the plain files of the directory are named exactly by
\* the targets of the records, one file per record.
C2_RoundTrip ==
    (/\ last.op = "rename_files" /\ last.err = NoError
     /\ Len(last.val) = Len(recs))
    => /\ PlainFiles(disk) = { recs[i].target : i \in InFiles(last.val) }
       /\ Cardinality(PlainFiles(disk)) = Len(recs)

\* C3 as stated: when the script has run to the end, the directory holds
\* exactly one plain file for each content that was loaded.
C3_Pipeline ==
    Returned("rename_files")
    => /\ { disk[n].content : n \in PlainFiles(disk) }
            = { recs[i].hash_ : i \in DOMAIN recs }
       /\ Cardinality(PlainFiles(disk))
            = Cardinality({ recs[i].hash_ : i \in DOMAIN recs })

\* C7: delete_duplicates leaves the file of every record that is in files
\* where it is; the files it deletes are the files at the paths of given
\* records that are not in files; it raises DuplicateNotRemovedError when
\* its loop comes to a record that is in files, and only then.
C7_RemoveBeforeDelete ==
    [][last'.op = "delete_duplicates" =>
         LET d == last'.val
         IN  /\ \A i \in InFiles(files) :
                  recs[i].path \in DOMAIN disk =>
                      /\ recs[i].path \in DOMAIN disk'
                      /\ disk'[recs[i].path] = disk[recs[i].path]
             /\ \A n \in DOMAIN disk \ DOMAIN disk' :
                  \E k \in DOMAIN d :
                      d[k] \notin InFiles(files) /\ recs[d[k]].path = n
             /\ \A k \in DOMAIN d :
                  (/\ d[k] \in InFiles(files)
                   /\ \A j \in 1..(k - 1) :
                        /\ d[j] \notin InFiles(files)
                        /\ recs[d[j]].path \in DOMAIN disk
                        /\ \A j2 \in 1..(j - 1) : d[j2] # d[j])
                  => last'.err = "DuplicateNotRemovedError"
             /\ last'.err = "DuplicateNotRemovedError" =>
                  \E k \in DOMAIN d : d[k] \in InFiles(files)
      ]_vars

\* delete_duplicates has raised DuplicateNotRemovedError while the file of
\* a removed record is gone and the files of the managed records are there
C7_Witness ==
    /\ last.op = "delete_duplicates"
    /\ last.err = "DuplicateNotRemovedError"
    /\ files # <<>>
    /\ \A i \in InFiles(files) : recs[i].path \in DOMAIN disk
    /\ \E i \in DOMAIN recs \ InFiles(files) : recs[i].path \notin DOMAIN disk

\* C8 as stated: rename_files raises NoFileToRenameError if and only if an
\* earlier rename_files call on the manager has completed: it raises it
\* only after a completed pass, and after a completed pass every call
\* raises it.
C8_DepletedIffSucceeded ==
    last.op = "rename_files" =>
        /\ last.err = "NoFileToRenameError" => succeeded
        /\ (succeeded /\ last.err # NoError) =>
              last.err = "NoFileToRenameError"

\* C9: rename_files moves the file of a record only if the record is
\* resolved, and a rename_files call that raises TargetNotResolvedError
\* leaves the directory, files and every record as they were.
C9_ResolveBeforeRename ==
    [][last'.op = "rename_files" =>
         /\ \A i \in InFiles(files) :
              (recs[i].path \in DOMAIN disk /\ recs[i].path \notin DOMAIN disk')
                  => recs[i].resolved
         /\ last'.err = "TargetNotResolvedError" =>
              disk' = disk /\ files' = files /\ recs' = recs
      ]_vars

\* rename_files has raised TargetNotResolvedError on two or more records
C9_Witness ==
    /\ last.op = "rename_files"
    /\ last.err = "TargetNotResolvedError"
    /\ Len(files) >= 2

\* C10: the constructor raises NoFileToRenameError exactly when the
\* directory holds no plain file; otherwise files holds one record for each
\* plain file and none for a sub-directory.
C10_Construction ==
    last.op = "init" =>
        /\ last.err = "NoFileToRenameError" <=> PlainFiles(disk) = {}
        /\ pc = "failed" <=> PlainFiles(disk) = {}
        /\ PlainFiles(disk) # {} =>
              /\ Len(files) = Cardinality(PlainFiles(disk))
              /\ { recs[i].path : i \in InFiles(files) } = PlainFiles(disk)

\* the constructor has returned on a directory that holds plain files and a
\* sub-directory
C10_Witness ==
    /\ last.op = "init"
    /\ pc = "active"
    /\ PlainFiles(disk) # DOMAIN disk
    /\ Cardinality(PlainFiles(disk)) >= 2

\* the order of sorted() on records: by timestamp, then by sequence number
InOrder(r1, r2) ==
    \/ r1.date < r2.date
    \/ r1.date = r2.date /\ r1.index <= r2.index

\* C11: once the manager is constructed, and after every later operation,
\* the records under management are in ascending order of (timestamp,
\* sequence number), whatever order the directory listing had.
C11_Sorted ==
    pc = "active" =>
        \A k1, k2 \in DOMAIN files :
            k1 < k2 => InOrder(recs[files[k1]], recs[files[k2]])

\* the characters of a file name in ascending code order
CharOrder ==
    <<" ", ".">> \o Digits \o <<"a", "b", "c", "d", "j", "p", "s", "z">>
Code(ch) == CHOOSE k \in DOMAIN CharOrder : CharOrder[k] = ch

RECURSIVE NameBefore(_, _)
\* n1 < n2 as Python compares the two names
NameBefore(n1, n2) ==
    IF n2 = <<>> THEN FALSE
    ELSE IF n1 = <<>> THEN TRUE
    ELSE IF Head(n1) # Head(n2) THEN Code(Head(n1)) < Code(Head(n2))
    ELSE NameBefore(Tail(n1), Tail(n2))

\* three freshly loaded files of one timestamp and one extension whose
\* contents differ pairwise
ThreeWayTie ==
    /\ Fresh
    /\ Len(files) = 3
    /\ \A i, j \in DOMAIN recs :
          /\ recs[i].date = recs[j].date
          /\ Suffix(recs[i].path) = Suffix(recs[j].path)
          /\ i # j => recs[i].hash_ # recs[j].hash_

\* C12: when three files of pairwise different content carry the same
\* timestamp T, resolve_targets gives them the numbers 1, 2 and 3 in
\* ascending order of their original names, in whatever order the
\* directory listing produced them.
C12_TieBreakByName ==
    [][(ThreeWayTie /\ last'.op = "resolve_targets")
        => \A i, j \in DOMAIN recs :
              /\ recs'[i].index \in 1..3
              /\ Suffixed(recs'[i], recs'[i].index)
              /\ NameBefore(recs[i].path, recs[j].path)
                    => recs'[i].index < recs'[j].index]_vars

\* the directory entry a record was built from (no file moves in SpecDate)
AttrOf(rec) == disk[rec.path]

\* the candidate timestamps of a file: its CreateDate when exiftool
\* printed one that parses, and its st_ctime
Candidates(attr) ==
    (IF attr.create # NoDate THEN {attr.create} ELSE {}) \cup {attr.ctime}
Minimum(S) == CHOOSE x \in S : \A y \in S : x <= y

C14_Fallback ==
    (pc # "new" /\ PlainFiles(disk) # {}) =>
        /\ pc = "active"
        /\ \A n \in PlainFiles(disk) :
              \E i \in DOMAIN recs :
                  /\ recs[i].path = n
                  /\ recs[i].date \in Stamps
                  /\ disk[n].create = NoDate => recs[i].date = disk[n].ctime

\* a loaded directory with a file without CreateDate next to one with it
C14_Witness ==
    /\ pc = "active"
    /\ \E i, j \in DOMAIN recs :
          /\ AttrOf(recs[i]).create = NoDate
          /\ recs[i].date = AttrOf(recs[i]).ctime
          /\ AttrOf(recs[j]).create # NoDate
          /\ AttrOf(recs[j]).create # recs[i].date

\* the records under management that share the timestamp of record i, and
\* those that share its timestamp and its extension
SameTimestamp(i) == { j \in InFiles(files) : recs[j].date = recs[i].date }
SameTimestampAndExtension(i) ==
    { j \in SameTimestamp(i) : Suffix(recs[j].path) = Suffix(recs[i].path) }

\* the records of G carry the numbers 1..k in their targets, k the size of G
CarriesOneToK(G) ==
    /\ \A j \in G : Suffixed(recs[j], recs[j].index)
    /\ { recs[j].index : j \in G } = 1..Cardinality(G)

C15_PerTimestamp ==
    \A i \in InFiles(files) :
        /\ Cardinality(SameTimestamp(i)) >= 2
              => CarriesOneToK(SameTimestamp(i))
        /\ Unsuffixed(recs[i]) => SameTimestamp(i) = {i}

\* C15 as stated: after every resolve_targets call, also one that follows
\* an earlier resolve_targets and a remove_duplicates, the k >= 2 records
\* under management that share a timestamp carry exactly the numbers 1..k,
\* and a record is unsuffixed only when no other record has its timestamp.
C15_Original ==
    [][last'.op = "resolve_targets" => C15_PerTimestamp']_vars

C15_PerTimestampAndExtension ==
    \A i \in InFiles(files) :
        /\ Cardinality(SameTimestampAndExtension(i)) >= 2
              => CarriesOneToK(SameTimestampAndExtension(i))
        /\ Unsuffixed(recs[i]) => SameTimestampAndExtension(i) = {i}

\* no record under management has been incremented or resolved
Untouched ==
    /\ pc = "active"
    /\ \A i \in InFiles(files) : recs[i].index = 1 /\ ~ recs[i].resolved

\* C15: after a resolve_targets call on records that are all unresolved
\* with sequence number 1 (records may have been removed before), the
\* k >= 2 records under management that share a timestamp and an
\* extension carry exactly the numbers 1..k, and a record is unsuffixed
\* only when no other record has its timestamp and extension.
C15_ContiguousSuffixes ==
    [][(Untouched /\ last'.op = "resolve_targets")
          => C15_PerTimestampAndExtension']_vars

\* resolve_targets has numbered three records of one timestamp and
\* extension 1, 2 and 3
C15_Witness ==
    /\ last.op = "resolve_targets"
    /\ \E i, j, k \in InFiles(files) :
          /\ SameTimestampAndExtension(i) = {i, j, k}
          /\ Suffixed(recs[i], 1) /\ Suffixed(recs[j], 2)
          /\ Suffixed(recs[k], 3)

\* C16: in every state reached by increment_target, remove_duplicates and
\* resolve_targets calls, the target of a record whose resolved flag is
\* set differs from the target of every other record under management;
\* resolve_targets sets the flag of every record under management and no
\* call clears a flag.
C16_ResolvedIsFinal ==
    /\ [](\A i \in InFiles(files) :
            recs[i].resolved =>
                \A j \in InFiles(files) \ {i} :
                    recs[j].target # recs[i].target)
    /\ [][/\ (last'.op = "resolve_targets"
                 => \A i \in InFiles(files') : recs'[i].resolved)
           /\ (\A k \in DOMAIN recs :
                 (k \in DOMAIN recs' /\ recs[k].resolved)
                     => recs'[k].resolved)]_vars

\* C19: a freshly constructed record has sequence number 1 and the target
\* with the number 1; increment_target adds exactly 1 to the sequence
\* number of one record and gives it the target with the new number, also
\* when its target had no number, touches no file and leaves the record's
\* timestamp, hash, path and resolved flag and all other records alone;
\* at all times the target of a record is the name built from its
\* timestamp with its sequence number or without a number.
C19_NamingInvariant ==
    /\ [](\A i \in DOMAIN recs :
            Suffixed(recs[i], recs[i].index) \/ Unsuffixed(recs[i]))
    /\ []((last.op = "init" /\ pc = "active") =>
            \A i \in DOMAIN recs :
                recs[i].index = 1 /\ Suffixed(recs[i], 1))
    /\ [][last'.op = "increment_target" =>
            /\ disk' = disk
            /\ files' = files
            /\ DOMAIN recs' = DOMAIN recs
            /\ \E i \in DOMAIN recs :
                  /\ recs'[i].index = recs[i].index + 1
                  /\ Suffixed(recs'[i], recs'[i].index)
                  /\ recs'[i].date = recs[i].date
                  /\ recs'[i].hash_ = recs[i].hash_
                  /\ recs'[i].path = recs[i].path
                  /\ recs'[i].resolved = recs[i].resolved
                  /\ \A j \in DOMAIN recs \ {i} : recs'[j] = recs[j]]_vars

\* increment_target has just given the number 2 to a resolved record that
\* is alone with its timestamp and extension in a full collection, whose
\* target resolve_targets had left without a number
C19_Witness ==
    /\ last.op = "increment_target"
    /\ Len(files) = Len(recs)
    /\ \E i \in InFiles(files) :
          /\ recs[i].resolved
          /\ recs[i].index = 2
          /\ Suffixed(recs[i], 2)
          /\ SameTimestampAndExtension(i) = {i}

\* the records named in a list of records
Elems(duplicates) == { duplicates[k] : k \in DOMAIN duplicates }
\* fs without the records of the set S, the others in their order
Without(fs, S) == SelectSeq(fs, LAMBDA i : i \notin S)

\* C18: remove_duplicates touches no file and no field of any record; when
\* it returns, the records under management are those of before without
\* the given ones, in their previous relative order (when list.remove
\* raises for a record that is not under management, the given records
\* before that one are gone and nothing else).
C18_RemoveInMemory ==
    [][\A duplicates \in ArgLists :
          RemoveDuplicates(duplicates) =>
              /\ disk' = disk
              /\ recs' = recs
              /\ last'.err = NoError
                    => files' = Without(files, Elems(duplicates))
              /\ \E S \in SUBSET Elems(duplicates) :
                    files' = Without(files, S)]_vars

\* remove_duplicates has returned after taking the second of three records
\* out of the collection
C18_Witness ==
    /\ Returned("remove_duplicates")
    /\ Len(recs) = 3
    /\ files = <<1, 3>>

\* the call that has just ended was delete_duplicates raising
\* DuplicateNotRemovedError (its argument is last'.val)
DeleteRefused ==
    /\ last'.op = "delete_duplicates"
    /\ last'.err = "DuplicateNotRemovedError"

\* C20 as stated: a delete_duplicates call that fails with
\* DuplicateNotRemovedError has deleted no file, also when the list holds
\* removed records and records still under management.
C20_Original ==
    [][DeleteRefused => disk' = disk]_vars

\* the position of the first given record that is still under management
FirstPresent(duplicates) ==
    CHOOSE k \in DOMAIN duplicates :
        /\ duplicates[k] \in InFiles(files)
        /\ \A j \in 1..(k - 1) : duplicates[j] \notin InFiles(files)

\* C20: a delete_duplicates call that fails with DuplicateNotRemovedError
\* has deleted exactly the files of the given records that come before
\* the first record still under management, and no file when that record
\* is the first of the list.
C20_DeletesUpToFirstPresent ==
    [][DeleteRefused =>
          LET k == FirstPresent(last'.val)
              gone == { recs[last'.val[j]].path : j \in 1..(k - 1) }
          IN  /\ gone \subseteq DOMAIN disk
              /\ DOMAIN disk' = DOMAIN disk \ gone
              /\ \A n \in DOMAIN disk' : disk'[n] = disk[n]
              /\ k = 1 => disk' = disk]_vars

\* delete_duplicates was given a removed record and then a record still
\* under management: it raised and the file of the first is gone
C20_Witness ==
    /\ last.op = "delete_duplicates"
    /\ last.err = "DuplicateNotRemovedError"
    /\ Len(last.val) = 2
    /\ last.val[1] \notin InFiles(files)
    /\ last.val[2] \in InFiles(files)
    /\ recs[last.val[1]].path \notin DOMAIN disk

\* the call that has just ended was rename_files raising from inside its
\* loop over the records
RenameRaised ==
    /\ last'.op = "rename_files"
    /\ last'.err \notin {NoError, "NoFileToRenameError"}

\* the file of the record is in directory d under the name n
FileAt(d, rec, n) == n \in DOMAIN d /\ d[n].content = rec.hash_

\* C17: when the k-th rename of a rename_files pass raises, the files of
\* the first k-1 records are at their targets, the files of the k-th and
\* later records are at their original paths, the records are all still
\* under management and the manager has not finished.
C17_PartialFailure ==
    [][RenameRaised =>
          \A os \in Platforms :
              LET r == rename_loop(disk, os, recs, files, 0)
              IN  (r.disk = disk' /\ r.err = last'.err) =>
                      /\ \A j \in 1..r.done :
                            FileAt(disk', recs[files[j]],
                                   recs[files[j]].target)
                      /\ \A j \in (r.done + 1)..Len(files) :
                            FileAt(disk', recs[files[j]],
                                   recs[files[j]].path)
                      /\ files' = files
                      /\ recs' = recs
                      /\ ~ succeeded']_vars

\* the hashes carried by the records of a list
Hashes(fs) == { recs[fs[k]].hash_ : k \in DOMAIN fs }

\* C21: remove_duplicates(find_duplicates()) leaves records of pairwise
\* different hashes, keeps every hash the records carried before the call
\* (every hash present at load when no record had been removed before),
\* and a find_duplicates call after it returns the empty list.
C21_Deduplication ==
    [][RemoveDuplicates(find_duplicates(recs, files, <<>>, <<>>)) =>
          /\ last'.err = NoError
          /\ \A k1, k2 \in DOMAIN files' :
                k1 # k2 => recs'[files'[k1]].hash_ # recs'[files'[k2]].hash_
          /\ { recs'[files'[k]].hash_ : k \in DOMAIN files' } = Hashes(files)
          /\ Len(files) = Len(recs)
                => \A i \in DOMAIN recs :
                      Cardinality({ k \in DOMAIN files' :
                          recs'[files'[k]].hash_ = recs[i].hash_ }) = 1
          /\ find_duplicates(recs', files', <<>>, <<>>) = <<>>]_vars

\* remove_duplicates has returned and left two records of different
\* content out of a load in which one content came in two or more copies
C21_Witness ==
    /\ Returned("remove_duplicates")
    /\ Len(recs) >= 3
    /\ Len(files) = 2
    /\ Hashes(files) = Hashes([i \in DOMAIN recs |-> i])
    /\ Cardinality(Hashes(files)) = 2

\* C22: a resolve_targets call that has begun returns; whatever
\* resolve_targets and remove_duplicates calls were made, the sequence
\* number of every record is at least 1 and at most the number of records
\* loaded at construction; and for each record the while loop of the
\* first phase makes at most one pass per target appended before it.
C22_ResolveTerminates ==
    /\ [](\A i \in DOMAIN recs :
            recs[i].index >= 1 /\ recs[i].index <= Len(recs))
    /\ [](pc = "phase1" => Passes <= Len(Targets))
    /\ (pc = "phase1") ~> (pc = "active")

\* resolve_targets has returned on three records of one timestamp and
\* extension and the last of them carries the number 3, the number of
\* records loaded
C22_Witness ==
    /\ pc = "active"
    /\ last.op = "resolve_targets"
    /\ Len(recs) = 3
    /\ Len(files) = 3
    /\ recs[files[3]].index = 3
====
